---- MODULE Spec2Model ----
(***************************************************************************)
(* kami-batch: the SpriteBatch of src/index.js as a state machine.         *)
(*                                                                         *)
(* SpriteBatch mixes in BaseBatch (package kami-base-batch), whose source  *)
(* is not part of src/.  The BaseBatch_* operators below follow the        *)
(* specification of the session life cycle (section 4.1); everything else  *)
(* is translated from src/index.js.                                        *)
(*                                                                         *)
(* A batch is handled as a record s; every method is an operator from the  *)
(* record before the call to the record after it, with field err naming    *)
(* the exception the call threw ("none" when it returned).  Fields         *)
(* submitted, slots, uploaded and lastRender are history: they record what *)
(* the caller handed in and what reached the GPU.                          *)
(***************************************************************************)
EXTENDS Integers, Sequences, FiniteSets, TLC

\* SpriteBatch.VERTEX_SIZE
VERTEX_SIZE == 5

\* largest options.size (capacity in quads) a batch is constructed with
MaxSize == 2

\* largest number of quads appended over the life of the batch
MaxDraws == 3

getVertexSize == VERTEX_SIZE

\* floats of one quad: 4 vertices of getVertexSize() floats
QuadFloats == getVertexSize * 4

(***************************************************************************)
(* Texture handles.  TexA is a kami texture (id, width, height); GlTex1    *)
(* and GlTex2 are handles as in examples/modules-gl.js: bind() only, no    *)
(* id, no width and no height.                                             *)
(***************************************************************************)
NullTex == "null"

Textures == {"TexA", "GlTex1", "GlTex2"}

TextureId(t) == IF t = "TexA" THEN "idA" ELSE "undefined"

TextureHasSize(t) == t = "TexA"

TextureWidth(t) == 64

TextureHeight(t) == 32

(***************************************************************************)
(* Float32Array: a write at an index outside the array is dropped.         *)
(***************************************************************************)
NewFloat32Array(n) == [i \in 1..n |-> 0]

\* WriteFloats with a fault: the cursor advances by one vertex too few
WriteFloats_short(s, q) ==
    [s EXCEPT
       !.vertices = [i \in 1..Len(s.vertices) |->
                        IF i - 1 >= s.idx /\ i - 1 < s.idx + Len(q)
                        THEN q[i - s.idx] ELSE s.vertices[i]],
       !.idx = s.idx + Len(q) - VERTEX_SIZE]

\* this.vertices[this.idx++] = q[1]; ... ; this.vertices[this.idx++] = q[n]
WriteFloats(s, q) ==
    [s EXCEPT
       !.vertices = [i \in 1..Len(s.vertices) |->
                        IF i - 1 >= s.idx /\ i - 1 < s.idx + Len(q)
                        THEN q[i - s.idx] ELSE s.vertices[i]],
       !.idx = s.idx + Len(q)]

(***************************************************************************)
(* BaseBatch (kami-base-batch), after sections 4.1 and 4.4 of the           *)
(* specification.                                                          *)
(***************************************************************************)
\* four 0..1 channels packed as the bytes A,B,G,R of one 32-bit pattern, the
\* lowest bit of the alpha byte masked off; the pattern read as a signed
\* 32-bit integer
PackColor(r, g, b, a) ==
    LET alpha == (a * 255) - ((a * 255) % 2)
        high  == IF alpha >= 128 THEN alpha - 256 ELSE alpha
    IN  high * 16777216 + b * 255 * 65536 + g * 255 * 256 + r * 255

BaseBatch_init(size) ==
    [ drawing          |-> FALSE,
      idx              |-> 0,
      vertices         |-> NewFloat32Array(size * 4 * getVertexSize),
      size             |-> size,
      color            |-> PackColor(1, 1, 1, 1),
      totalRenderCalls |-> 0,
      uProjection      |-> [unset |-> TRUE],
      boundTexture     |-> NullTex,
      depthMask        |-> TRUE,
      submitted        |-> <<>>,
      slots            |-> <<>>,
      uploaded         |-> <<>>,
      lastRender       |-> [texture |-> NullTex, quads |-> 0, texs |-> <<>>],
      err              |-> "none" ]

BaseBatch_setColor(s, r, g, b, a) == [s EXCEPT !.color = PackColor(r, g, b, a)]

BaseBatch_begin(s) ==
    IF s.drawing
    THEN [s EXCEPT !.err = "IllegalState"]
    ELSE [s EXCEPT !.drawing = TRUE]

\* the upload of vertices[0, idx) (a sub-array ends where the array ends) and
\* the indexed draw call, after _preRender
BaseBatch_draw(s) ==
    [s EXCEPT
       !.uploaded   = @ \o SubSeq(s.vertices, 1,
                                  IF s.idx < Len(s.vertices) THEN s.idx
                                  ELSE Len(s.vertices)),
       !.lastRender = [texture |-> s.boundTexture,
                       quads   |-> s.idx \div QuadFloats,
                       texs    |-> s.slots],
       !.slots      = <<>>,
       !.idx        = 0]

(***************************************************************************)
(* SpriteBatch, src/index.js                                               *)
(***************************************************************************)
initialize(size) ==
    [f \in DOMAIN BaseBatch_init(size) \cup {"projection", "texture"} |->
        CASE f = "projection" -> [mat |-> "identity"]
          [] f = "texture"    -> NullTex
          [] OTHER            -> BaseBatch_init(size)[f]]

updateMatrices(s) == [s EXCEPT !.uProjection = s.projection]

_preRender(s) ==
    IF s.texture # NullTex THEN [s EXCEPT !.boundTexture = s.texture] ELSE s

\* the parent's flush: nothing when the batch is empty, else bind, upload,
\* draw and cursor 0
BaseBatch_flush(s) ==
    IF s.idx = 0 THEN s ELSE BaseBatch_draw(_preRender(s))

\* flush with a fault: the check for an empty batch is missing
flush_noEmptyCheck(s) ==
    IF s.texture = NullTex THEN s
    ELSE [BaseBatch_flush(s) EXCEPT !.totalRenderCalls = @ + 1]

\* flush with a fault: the texture check is inverted
flush_textureInverted(s) ==
    IF s.texture # NullTex THEN s
    ELSE IF s.idx = 0 THEN s
    ELSE [BaseBatch_flush(s) EXCEPT !.totalRenderCalls = @ + 1]

\* flush with a fault: the two early returns are missing, so an empty batch
\* counts as a render call
flush_always(s) ==
    [BaseBatch_flush(s) EXCEPT !.totalRenderCalls = @ + 1]

flush(s) ==
    IF s.texture = NullTex THEN s
    ELSE IF s.idx = 0 THEN s
    ELSE [BaseBatch_flush(s) EXCEPT !.totalRenderCalls = @ + 1]

BaseBatch_end(s) ==
    IF ~s.drawing
    THEN [s EXCEPT !.err = "IllegalState"]
    ELSE [flush(s) EXCEPT !.drawing = FALSE]

\* begin with a fault: the parent's begin is not called
begin_noParent(s) == [updateMatrices(s) EXCEPT !.depthMask = FALSE]

begin(s) ==
    LET b == BaseBatch_begin(s) IN
    IF b.err # "none" THEN b
    ELSE [updateMatrices(b) EXCEPT !.depthMask = FALSE]

\* end with a fault: the parent's end is not called
end_noParent(s) == [s EXCEPT !.depthMask = TRUE]

end(s) ==
    LET e == BaseBatch_end(s) IN
    IF e.err # "none" THEN e
    ELSE [e EXCEPT !.depthMask = TRUE]

(***************************************************************************)
(* Arguments of draw(): a record of the numbers passed and the set given   *)
(* of the parameters that were passed at all.                              *)
(***************************************************************************)
\* a default parameter value: used when the argument is absent
Arg(a, n, d) == IF n \in a.given THEN a[n] ELSE d

\* v || d on a number: d when the argument is absent or 0
OrElse(a, n, d) == IF n \in a.given /\ a[n] # 0 THEN a[n] ELSE d

\* Math.cos and Math.sin, on the one angle whose value is an integer
Cos(r) == CASE r = 0 -> 1

Sin(r) == CASE r = 0 -> 0

\* the corners of one sprite in screen space, << xs, ys >> with xs and ys
\* the four x and the four y in the order of the vertices
drawCorners(tex, a) ==
    LET originX  == Arg(a, "originX", 0)
        originY  == Arg(a, "originY", 0)
        rotation == Arg(a, "rotation", 0)
        scaleX   == Arg(a, "scaleX", 1)
        scaleY   == Arg(a, "scaleY", 1)
        width    == IF "width" \in a.given /\ a.width = 0 THEN 0
                    ELSE OrElse(a, "width", TextureWidth(tex))
        height   == IF "height" \in a.given /\ a.height = 0 THEN 0
                    ELSE OrElse(a, "height", TextureHeight(tex))
        x        == OrElse(a, "x", 0)
        y        == OrElse(a, "y", 0)
        \* local corners
        lx == << -originX, width - originX, width - originX, -originX >>
        ly == << -originY, -originY, height - originY, height - originY >>
        \* scale
        sx == [i \in 1..4 |-> IF scaleX # 1 THEN lx[i] * scaleX ELSE lx[i]]
        sy == [i \in 1..4 |-> IF scaleY # 1 THEN ly[i] * scaleY ELSE ly[i]]
        \* rotate
        rx == [i \in 1..4 |-> IF rotation # 0
                              THEN Cos(rotation) * sx[i] - Sin(rotation) * sy[i]
                              ELSE sx[i]]
        ry == [i \in 1..4 |-> IF rotation # 0
                              THEN Sin(rotation) * sx[i] + Cos(rotation) * sy[i]
                              ELSE sy[i]]
        \* translate
        wx == [i \in 1..4 |-> rx[i] + x + originX]
        wy == [i \in 1..4 |-> ry[i] + y + originY]
    IN  << wx, wy >>

\* drawQuad with a fault: the color is written for the first vertex only
drawQuad_colorOnce(tex, c, a) ==
    LET wx == drawCorners(tex, a)[1]
        wy == drawCorners(tex, a)[2]
        u1 == Arg(a, "u1", 0)
        v1 == Arg(a, "v1", 0)
        u2 == Arg(a, "u2", 1)
        v2 == Arg(a, "v2", 1)
    IN  << wx[1], wy[1], c, u1, v1,
           wx[2], wy[2], 0, u2, v1,
           wx[3], wy[3], 0, u2, v2,
           wx[4], wy[4], 0, u1, v2 >>

\* drawQuad with a fault: the UVs of the third and fourth vertex are swapped
drawQuad_uvSwapped(tex, c, a) ==
    LET wx == drawCorners(tex, a)[1]
        wy == drawCorners(tex, a)[2]
        u1 == Arg(a, "u1", 0)
        v1 == Arg(a, "v1", 0)
        u2 == Arg(a, "u2", 1)
        v2 == Arg(a, "v2", 1)
    IN  << wx[1], wy[1], c, u1, v1,
           wx[2], wy[2], c, u2, v1,
           wx[3], wy[3], c, u1, v2,
           wx[4], wy[4], c, u2, v2 >>

\* the 20 floats draw() writes for one sprite, in the order it writes them
drawQuad(tex, c, a) ==
    LET wx == drawCorners(tex, a)[1]
        wy == drawCorners(tex, a)[2]
        u1 == Arg(a, "u1", 0)
        v1 == Arg(a, "v1", 0)
        u2 == Arg(a, "u2", 1)
        v2 == Arg(a, "v2", 1)
    IN  << wx[1], wy[1], c, u1, v1,
           wx[2], wy[2], c, u2, v1,
           wx[3], wy[3], c, u2, v2,
           wx[4], wy[4], c, u1, v2 >>

\* history: the quad q was handed in with texture tex and written at the cursor
Submit(s, tex, q) ==
    [s EXCEPT !.submitted = Append(@, q), !.slots = Append(@, tex)]

\* drawPolicy with a fault: the buffer is flushed one quad before it is full
drawPolicy_earlyFlush(s, tex) ==
    IF s.texture = NullTex \/ TextureId(s.texture) # TextureId(tex)
    THEN [flush(s) EXCEPT !.texture = tex]
    ELSE IF s.idx >= Len(s.vertices) - QuadFloats THEN flush(s)
    ELSE s

\* drawPolicy with a fault: the buffer is flushed one quad after it is full
drawPolicy_lateFlush(s, tex) ==
    IF s.texture = NullTex \/ TextureId(s.texture) # TextureId(tex)
    THEN [flush(s) EXCEPT !.texture = tex]
    ELSE IF s.idx = Len(s.vertices) + QuadFloats THEN flush(s)
    ELSE s

\* drawPolicy with a fault: the new texture is not kept
drawPolicy_noBind(s, tex) ==
    IF s.texture = NullTex \/ TextureId(s.texture) # TextureId(tex)
    THEN flush(s)
    ELSE IF s.idx = Len(s.vertices) THEN flush(s)
    ELSE s

\* drawPolicy with a fault: a full buffer is not flushed
drawPolicy_noCapacityFlush(s, tex) ==
    IF s.texture = NullTex \/ TextureId(s.texture) # TextureId(tex)
    THEN [flush(s) EXCEPT !.texture = tex]
    ELSE s

\* draw(), lines 292-298: flush on a new texture or on a full buffer
drawPolicy(s, tex) ==
    IF s.texture = NullTex \/ TextureId(s.texture) # TextureId(tex)
    THEN [flush(s) EXCEPT !.texture = tex]
    ELSE IF s.idx = Len(s.vertices) THEN flush(s)
    ELSE s

\* drawVertices(), lines 427-433
drawVerticesPolicy(s, tex) ==
    IF s.texture # tex
    THEN [flush(s) EXCEPT !.texture = tex]
    ELSE IF s.idx = Len(s.vertices) THEN flush(s)
    ELSE s

\* draw with a fault: the session check is missing
draw_unchecked(s, tex, a) ==
    IF tex = NullTex THEN s
    ELSE LET q == drawQuad(tex, s.color, a)
         IN  Submit(WriteFloats(drawPolicy(s, tex), q), tex, q)

draw(s, tex, a) ==
    IF ~s.drawing THEN [s EXCEPT !.err = "IllegalState"]
    ELSE IF tex = NullTex THEN s
    ELSE LET q == drawQuad(tex, s.color, a)
         IN  Submit(WriteFloats(drawPolicy(s, tex), q), tex, q)

\* drawRegion(): the region's u, v, u2 and v2 are passed as the sixth to
\* ninth argument of draw(), which are originX, originY, rotation and scaleX
drawRegion(s, region, x, y, width, height) ==
    draw(s, region.texture,
         [given    |-> {"x", "y", "width", "height",
                        "originX", "originY", "rotation", "scaleX"},
          x        |-> x,
          y        |-> y,
          width    |-> width,
          height   |-> height,
          originX  |-> region.u,
          originY  |-> region.v,
          rotation |-> region.u2,
          scaleX   |-> region.v2])

\* drawVertices with a fault: the fourth vertex is not copied
drawVertices_threeVertices(s, tex, verts, off) ==
    IF ~s.drawing THEN [s EXCEPT !.err = "IllegalState"]
    ELSE IF tex = NullTex THEN s
    ELSE LET o == IF off.given /\ off.value # 0 THEN off.value ELSE 0
             q == [i \in 1..(QuadFloats - VERTEX_SIZE) |-> verts[o + i]]
         IN  Submit(WriteFloats(drawVerticesPolicy(s, tex), q), tex, q)

\* drawVertices with a fault: a null texture is not skipped
drawVertices_nullDrawn(s, tex, verts, off) ==
    IF ~s.drawing THEN [s EXCEPT !.err = "IllegalState"]
    ELSE LET o == IF off.given /\ off.value # 0 THEN off.value ELSE 0
             q == [i \in 1..QuadFloats |-> verts[o + i]]
         IN  Submit(WriteFloats(drawVerticesPolicy(s, tex), q), tex, q)

drawVertices(s, tex, verts, off) ==
    IF ~s.drawing THEN [s EXCEPT !.err = "IllegalState"]
    ELSE IF tex = NullTex THEN s
    ELSE LET o == IF off.given /\ off.value # 0 THEN off.value ELSE 0
             q == [i \in 1..QuadFloats |-> verts[o + i]]
         IN  Submit(WriteFloats(drawVerticesPolicy(s, tex), q), tex, q)

\* setProjection(): the names x, oldX, y and oldY of line 138 are bound
\* nowhere, so the comparison throws as soon as this.drawing lets it run
setProjection(s, m) ==
    LET p == [s EXCEPT !.projection = m] IN
    IF p.drawing THEN [p EXCEPT !.err = "ReferenceError"]
    ELSE p

\* resize(): setProjection(width / 2, height / 2); the second number is dropped
resize(s, width, height) == setProjection(s, [num |-> width \div 2])

(***************************************************************************)
(* The state: one batch and the static render-call counter.                *)
(*   gl   : what the batch has set in the graphics context and the shader  *)
(*   hist : history of the quads handed in and of the render calls         *)
(*   last : the latest call: its name, its texture argument, what it threw *)
(*          and the render calls it issued                                 *)
(*   session : history of the session opened by the latest begin(): the    *)
(*          quads appended in it, its render calls and the textures of     *)
(*          its quads                                                      *)
(*   input : the arguments the geometry calls are made with, fixed when    *)
(*          the batch is constructed                                       *)
(***************************************************************************)
VARIABLES drawing, idx, vertices, size, texture, color, projection,
          totalRenderCalls, gl, hist, last, session, input

vars == << drawing, idx, vertices, size, texture, color, projection,
           totalRenderCalls, gl, hist, last, session, input >>

\* the batch as the record the method operators work on
Cur ==
    [ drawing          |-> drawing,
      idx              |-> idx,
      vertices         |-> vertices,
      size             |-> size,
      texture          |-> texture,
      color            |-> color,
      projection       |-> projection,
      totalRenderCalls |-> totalRenderCalls,
      uProjection      |-> gl.uProjection,
      boundTexture     |-> gl.boundTexture,
      depthMask        |-> gl.depthMask,
      submitted        |-> hist.submitted,
      slots            |-> hist.slots,
      uploaded         |-> hist.uploaded,
      lastRender       |-> hist.lastRender,
      err              |-> "none" ]

\* the state after a call op(tex, ...) that left the batch as s
Install(s, op, tex) ==
    /\ drawing' = s.drawing
    /\ idx' = s.idx
    /\ vertices' = s.vertices
    /\ size' = s.size
    /\ texture' = s.texture
    /\ color' = s.color
    /\ projection' = s.projection
    /\ totalRenderCalls' = s.totalRenderCalls
    /\ gl' = [uProjection |-> s.uProjection, boundTexture |-> s.boundTexture,
              depthMask |-> s.depthMask]
    /\ hist' = [submitted |-> s.submitted, slots |-> s.slots,
                uploaded |-> s.uploaded, lastRender |-> s.lastRender]
    /\ last' = [op |-> op, tex |-> tex, err |-> s.err,
                renders |-> s.totalRenderCalls - totalRenderCalls]
    /\ session' =
          IF op = "begin" /\ s.err = "none"
          THEN [quads |-> 0, renders |-> 0, texs |-> {}]
          ELSE [quads   |-> session.quads
                              + Len(s.submitted) - Len(hist.submitted),
                renders |-> session.renders
                              + s.totalRenderCalls - totalRenderCalls,
                texs    |-> IF Len(s.submitted) > Len(hist.submitted)
                            THEN session.texs \cup {tex} ELSE session.texs]
    /\ input' = input

(***************************************************************************)
(* The inputs the calls are tried with.                                    *)
(***************************************************************************)
Sizes == 1..MaxSize

\* draw(tex, 10, 20, 30, 40), and a sprite of the texture's width and of
\* height 0 with origin, scale and UVs given (the numbers of the parameters
\* that are not given are not read)
DrawArgs ==
    { [given |-> {"x", "y", "width", "height"},
       x |-> 10, y |-> 20, width |-> 30, height |-> 40,
       originX |-> 0, originY |-> 0, rotation |-> 0, scaleX |-> 0, scaleY |-> 0,
       u1 |-> 0, v1 |-> 0, u2 |-> 0, v2 |-> 0],
      [given |-> {"x", "y", "height", "originX", "originY", "rotation",
                  "scaleX", "scaleY", "u1", "v1", "u2", "v2"},
       x |-> 1, y |-> 2, width |-> 3, height |-> 0,
       originX |-> 1, originY |-> 2, rotation |-> 0, scaleX |-> 2, scaleY |-> 3,
       u1 |-> 2, v1 |-> 3, u2 |-> 4, v2 |-> 5] }

\* pre-computed vertex data: 25 floats, read at offset 0 (absent) or 5
VertexData == [i \in 1..(QuadFloats + VERTEX_SIZE) |-> 100 + i]

Offsets == { [given |-> FALSE, value |-> 0], [given |-> TRUE, value |-> VERTEX_SIZE] }

Colors == { <<1, 1, 1, 1>>, <<1, 0, 0, 1>> }

Matrices == { [mat |-> "identity"], [mat |-> "ortho"] }

Widths == { 4 }

\* a batch of n quads, newly constructed
InitBatch(n) ==
        LET s == initialize(n) IN
        /\ drawing = s.drawing
        /\ idx = s.idx
        /\ vertices = s.vertices
        /\ size = s.size
        /\ texture = s.texture
        /\ color = s.color
        /\ projection = s.projection
        /\ totalRenderCalls = s.totalRenderCalls
        /\ gl = [uProjection |-> s.uProjection, boundTexture |-> s.boundTexture,
                 depthMask |-> s.depthMask]
        /\ hist = [submitted |-> s.submitted, slots |-> s.slots,
                   uploaded |-> s.uploaded, lastRender |-> s.lastRender]
        /\ last = [op |-> "new", tex |-> NullTex, err |-> "none", renders |-> 0]
        /\ session = [quads |-> 0, renders |-> 0, texs |-> {}]

Init ==
    /\ \E n \in Sizes : InitBatch(n)
    /\ input = [kind |-> "none"]

Begin == Install(begin(Cur), "begin", NullTex)

End == Install(end(Cur), "end", NullTex)

Flush == Install(flush(Cur), "flush", NullTex)

DrawWith(texs, args) ==
    /\ Len(hist.submitted) < MaxDraws
    /\ \E tex \in texs, a \in args :
          /\ tex # NullTex => ("width" \in a.given /\ "height" \in a.given)
                                \/ TextureHasSize(tex)
          /\ Install(draw(Cur, tex, a), "draw", tex)

DrawVerticesWith(texs, offs) ==
    /\ Len(hist.submitted) < MaxDraws
    /\ \E tex \in texs, off \in offs :
          Install(drawVertices(Cur, tex, VertexData, off), "drawVertices", tex)

Draw == DrawWith(Textures \cup {NullTex}, DrawArgs)

DrawVertices == DrawVerticesWith(Textures \cup {NullTex}, Offsets)

SetColor ==
    \E c \in Colors :
        Install(BaseBatch_setColor(Cur, c[1], c[2], c[3], c[4]), "setColor", NullTex)

SetProjection ==
    \E m \in Matrices : Install(setProjection(Cur, m), "setProjection", NullTex)

Resize ==
    \E w \in Widths : Install(resize(Cur, w, w), "resize", NullTex)

\* the session and the draw calls
Next ==
    \/ Begin
    \/ End
    \/ Flush
    \/ Draw
    \/ DrawVertices

Spec == Init /\ [][Next]_vars

\* the session with projection changes, drawing one sprite of one texture
DrawPlain ==
    DrawWith({"TexA", "GlTex1", NullTex}, {a \in DrawArgs : "u1" \notin a.given})

NextProjection ==
    \/ Begin
    \/ End
    \/ Flush
    \/ DrawPlain
    \/ SetProjection
    \/ Resize

SpecProjection == Init /\ [][NextProjection]_vars

\* the session with color changes, drawing one sprite and one quad of
\* vertex data
DrawVerticesPlain ==
    DrawVerticesWith({"GlTex1", NullTex}, {o \in Offsets : ~o.given})

NextColor ==
    \/ Begin
    \/ End
    \/ Flush
    \/ DrawPlain
    \/ DrawVerticesPlain
    \/ SetColor

SpecColor == Init /\ [][NextColor]_vars

\* sessions of draw() calls only: begin(), sprites of any texture, end()
DrawSprite == DrawWith(Textures, {a \in DrawArgs : "u1" \notin a.given})

NextSession ==
    \/ Begin
    \/ End
    \/ DrawSprite

SpecSession == Init /\ [][NextSession]_vars

(***************************************************************************)
(* One sprite drawn with arguments drawn from bounded sets: draw() with    *)
(* rotation 0, and drawRegion() with regions whose u2 is 0 (u2 is what     *)
(* draw() receives as its rotation, and 0 is the rotation whose cosine     *)
(* and sine are integers).                                                 *)
(***************************************************************************)
AllParams == {"x", "y", "width", "height", "originX", "originY", "rotation",
              "scaleX", "scaleY", "u1", "v1", "u2", "v2"}

GeomArgs ==
    { [given |-> AllParams,
       x |-> x, y |-> 20, width |-> w, height |-> 40,
       originX |-> ox, originY |-> 2, rotation |-> 0,
       scaleX |-> sx, scaleY |-> sy,
       u1 |-> u1, v1 |-> 3, u2 |-> 4, v2 |-> 5] :
         x \in {0, 10}, w \in {0, 30}, ox \in {0, 1},
         sx \in {1, 2}, sy \in {-1, 3}, u1 \in {0, 2} }
    \cup
    { [given |-> {"x", "y", "width", "height"},
       x |-> x, y |-> 20, width |-> w, height |-> 40,
       originX |-> 0, originY |-> 0, rotation |-> 0, scaleX |-> 0, scaleY |-> 0,
       u1 |-> 0, v1 |-> 0, u2 |-> 0, v2 |-> 0] :
         x \in {0, 10}, w \in {0, 30} }

\* mirrored regions: u runs from 1 down to 0, v up or down
Regions ==
    { [texture |-> tex, u |-> 1, v |-> v, u2 |-> 0, v2 |-> 1 - v] :
         tex \in {"TexA", "GlTex1"}, v \in {0, 1} }

GeomInputs ==
    { [kind |-> "draw", args |-> a] : a \in GeomArgs }
    \cup
    { [kind |-> "region", region |-> r, x |-> x, y |-> 20,
       width |-> 30, height |-> 40] : r \in Regions, x \in {0, 10} }

InitGeometry ==
    /\ \E n \in Sizes : InitBatch(n)
    /\ input \in GeomInputs

DrawInput ==
    /\ Len(hist.submitted) < MaxDraws
    /\ input.kind = "draw"
    /\ Install(draw(Cur, "TexA", input.args), "draw", "TexA")

DrawRegionInput ==
    /\ Len(hist.submitted) < MaxDraws
    /\ input.kind = "region"
    /\ Install(drawRegion(Cur, input.region, input.x, input.y,
                          input.width, input.height),
               "drawRegion", input.region.texture)

NextGeometry ==
    \/ Begin
    \/ End
    \/ DrawInput
    \/ DrawRegionInput

SpecGeometry == InitGeometry /\ [][NextGeometry]_vars

TypeOK ==
    /\ drawing \in BOOLEAN
    /\ idx \in 0..Len(vertices)
    /\ texture \in Textures \cup {NullTex}

(***************************************************************************)
(* Claims                                                                  *)
(***************************************************************************)
RECURSIVE Flatten(_)
\* the floats of a sequence of quads, one after the other
Flatten(qs) == IF qs = <<>> THEN <<>> ELSE Head(qs) \o Flatten(Tail(qs))

IsDrawCall(op) == op \in {"draw", "drawVertices"}

\* everything but the record of the latest call
batchVars == << drawing, idx, vertices, size, texture, color, projection,
                totalRenderCalls, gl, hist >>

\* C1: once end() has returned, the floats uploaded by the render calls, one
\* after the other, are exactly the quads handed to draw() and drawVertices()
\* with a texture, in call order: nothing lost, duplicated or reordered.
C1_OrderPreserved ==
    (last.op = "end" /\ last.err = "none")
        => hist.uploaded = Flatten(hist.submitted)

\* C1 witness: a session of three quads that was cut by flushes has ended
C1_Witness ==
    /\ last.op = "end" /\ last.err = "none"
    /\ Len(hist.submitted) = 3
    /\ totalRenderCalls >= 2

\* C2: every render call uploads quads of one texture only: each uploaded
\* quad was handed in with the very texture bound for the call.
C2_OneTexturePerRender ==
    \A i \in 1..Len(hist.lastRender.texs) :
        hist.lastRender.texs[i] = hist.lastRender.texture

\* C3: draw() and drawVertices() outside a session throw IllegalState and
\* leave cursor, currentTexture, the vertex buffer and the render-call
\* counter as they were, whatever the texture argument.
C3_DrawOutsideSession ==
    [][ (IsDrawCall(last'.op) /\ ~drawing)
          => /\ last'.err = "IllegalState"
             /\ UNCHANGED << idx, texture, vertices, totalRenderCalls >> ]_vars

\* C3 witness: a draw call with a null texture has thrown after a session
\* that rendered something
C3_Witness ==
    /\ IsDrawCall(last.op) /\ last.err = "IllegalState" /\ last.tex = NullTex
    /\ ~drawing /\ totalRenderCalls > 0

\* C4: begin() takes an idle batch to Drawing; begin() while Drawing throws
\* IllegalState and leaves Drawing, cursor, currentTexture and the buffered
\* quads as they were.
C4_Begin ==
    [][ last'.op = "begin"
          => IF drawing
             THEN /\ last'.err = "IllegalState"
                  /\ drawing'
                  /\ UNCHANGED << idx, texture, vertices, hist >>
             ELSE last'.err = "none" /\ drawing' ]_vars

\* C4 witness: begin() has thrown in a session with a quad buffered
C4_Witness ==
    last.op = "begin" /\ last.err = "IllegalState" /\ drawing /\ idx > 0

\* C5: end() in Drawing flushes everything buffered and leaves the batch
\* idle with cursor 0; end() while idle throws IllegalState and changes
\* nothing.
C5_End ==
    [][ last'.op = "end"
          => IF drawing
             THEN /\ last'.err = "none"
                  /\ ~drawing' /\ idx' = 0
                  /\ hist'.uploaded = hist.uploaded \o SubSeq(vertices, 1, idx)
                  /\ totalRenderCalls' =
                        totalRenderCalls + (IF idx > 0 THEN 1 ELSE 0)
             ELSE last'.err = "IllegalState" /\ UNCHANGED batchVars ]_vars

\* C5 witness: end() has flushed a session's quads
C5_Witness ==
    /\ last.op = "end" /\ last.err = "none" /\ last.renders = 1
    /\ ~drawing /\ idx = 0

\* C6: flush() never throws.  With no currentTexture or cursor 0 it does
\* nothing; otherwise it issues one draw call for cursor / (vertexSize * 4)
\* quads, adds 1 to the render-call counter and sets cursor to 0.  It never
\* changes currentTexture or the drawing flag.
C6_Flush ==
    [][ last'.op = "flush"
          => /\ last'.err = "none"
             /\ UNCHANGED << texture, drawing >>
             /\ IF texture = NullTex \/ idx = 0
                THEN UNCHANGED batchVars
                ELSE /\ totalRenderCalls' = totalRenderCalls + 1
                     /\ idx' = 0
                     /\ hist'.lastRender.quads = idx \div (VERTEX_SIZE * 4)
                     /\ hist'.uploaded =
                           hist.uploaded \o SubSeq(vertices, 1, idx) ]_vars

\* C6 witness: flush() has rendered two buffered quads
C6_Witness ==
    last.op = "flush" /\ last.renders = 1 /\ hist.lastRender.quads = 2

\* C7: a draw call in Drawing with a texture other than the non-null
\* currentTexture adds exactly 1 to the render-call counter, leaves cursor
\* at one quad and makes the new texture the currentTexture.
C7_TextureSwitch ==
    [][ ( /\ IsDrawCall(last'.op) /\ drawing
          /\ last'.tex # NullTex /\ texture # NullTex
          /\ last'.tex # texture )
          => /\ totalRenderCalls' = totalRenderCalls + 1
             /\ idx' = VERTEX_SIZE * 4
             /\ texture' = last'.tex ]_vars

C9_NullTexture ==
    [][ (IsDrawCall(last'.op) /\ drawing /\ last'.tex = NullTex)
          => last'.err = "none" /\ UNCHANGED batchVars ]_vars

\* C9 witness: a null texture was drawn over a non-empty buffer
C9_Witness ==
    /\ IsDrawCall(last.op) /\ last.tex = NullTex /\ last.err = "none"
    /\ drawing /\ idx > 0

\* C10: setProjection() in Drawing with a matrix other than the current
\* projection returns without an error, flushes the buffered quads at once
\* (render-call counter +1 when cursor > 0, cursor 0), then pushes the new
\* projection to the shader; the session stays in Drawing.
C10_SetProjection ==
    [][ (last'.op = "setProjection" /\ drawing /\ projection' # projection)
          => /\ last'.err = "none"
             /\ drawing'
             /\ idx' = 0
             /\ totalRenderCalls' =
                   totalRenderCalls + (IF idx > 0 THEN 1 ELSE 0)
             /\ gl'.uProjection = projection' ]_vars

\* the quad the latest draw call left in the vertex buffer
LastQuad == SubSeq(vertices, idx - QuadFloats + 1, idx)

\* C11: drawRegion(region, x, y, width, height) appends the quad that
\* draw(region.texture, x, y, width, height) with origin (0,0), rotation 0,
\* scale (1,1) and the UVs u1 = region.u, v1 = region.v, u2 = region.u2,
\* v2 = region.v2 appends.
C11_DrawRegion ==
    (last.op = "drawRegion" /\ last.err = "none" /\ last.tex # NullTex)
        => LastQuad =
             drawQuad(input.region.texture, color,
                      [given |-> AllParams,
                       x |-> input.x, y |-> input.y,
                       width |-> input.width, height |-> input.height,
                       originX |-> 0, originY |-> 0, rotation |-> 0,
                       scaleX |-> 1, scaleY |-> 1,
                       u1 |-> input.region.u, v1 |-> input.region.v,
                       u2 |-> input.region.u2, v2 |-> input.region.v2])

\* the positions and UVs section 4.3 gives for rotation 0, as the sequence
\* x, y, u, v of the first vertex, then of the second, third and fourth
ExpectedCorners(x, y, w, h, ox, oy, sx, sy, u1, v1, u2, v2) ==
    << (0 - ox) * sx + (x + ox), (0 - oy) * sy + (y + oy), u1, v1,
       (w - ox) * sx + (x + ox), (0 - oy) * sy + (y + oy), u2, v1,
       (w - ox) * sx + (x + ox), (h - oy) * sy + (y + oy), u2, v2,
       (0 - ox) * sx + (x + ox), (h - oy) * sy + (y + oy), u1, v2 >>

\* x, y, u, v of the four vertices of a quad of 20 floats
CornersOf(q) ==
    << q[1], q[2], q[4], q[5],     q[6], q[7], q[9], q[10],
       q[11], q[12], q[14], q[15], q[16], q[17], q[19], q[20] >>

OneTextureSession == Cardinality(session.texs) = 1

\* C12: in a session of draw() calls that share one texture, as long as the
\* quads drawn do not exceed the capacity, cursor is the number of quads
\* times vertexSize * 4 and the session has issued no render call.
C12_CursorCounts ==
    (drawing /\ Cardinality(session.texs) <= 1 /\ session.quads <= size)
        => /\ idx = session.quads * VERTEX_SIZE * 4
           /\ session.renders = 0

\* C12 witness: a session has filled the buffer with quads of one texture
C12_Witness ==
    /\ drawing /\ OneTextureSession
    /\ size = 2 /\ session.quads = size
    /\ idx = Len(vertices)

\* k / c rounded up
CeilDiv(k, c) == (k + c - 1) \div c

\* C13: a session begin(); K draws of one texture; end() on a batch of C
\* quads makes ceil(K / C) render calls: a draw() flushes exactly when it
\* appends quad C+1, 2C+1, ..., and end() flushes the rest once.
C13_RenderCalls ==
    /\ [][ (last'.op = "draw" /\ drawing /\ session.quads >= 1
              /\ Cardinality(session'.texs) = 1)
             => totalRenderCalls' - totalRenderCalls =
                   (IF session.quads % size = 0 THEN 1 ELSE 0) ]_vars
    /\ []( (last.op = "end" /\ last.err = "none" /\ OneTextureSession)
             => /\ session.renders = CeilDiv(session.quads, size)
                /\ last.renders = 1 )

\* C13 witness: begin(); three draws; end() on a batch of two quads
C13_Witness ==
    /\ last.op = "end" /\ last.err = "none" /\ OneTextureSession
    /\ size = 2 /\ session.quads = 3 /\ session.renders = 2

\* C14: end() right after begin() uploads nothing and leaves the
\* render-call counter as it was, with or without a currentTexture left
\* from an earlier session.
C14_EmptySession ==
    [][ (last.op = "begin" /\ last.err = "none" /\ last'.op = "end")
          => /\ last'.err = "none"
             /\ UNCHANGED << totalRenderCalls, hist, idx, vertices >> ]_vars

\* C14 witness: a session without a quad has ended on a batch that has a
\* currentTexture from an earlier session
C14_Witness ==
    /\ last.op = "end" /\ last.err = "none"
    /\ session.quads = 0 /\ session.renders = 0
    /\ texture # NullTex /\ totalRenderCalls > 0

\* C15: draw() writes the color of the latest setColor() into the color
\* slot of all four vertices of its quad; setColor() changes the color of
\* later quads only and leaves the vertex data already written alone.
C15_Color ==
    /\ [][ (last'.op = "draw" /\ last'.err = "none" /\ last'.tex # NullTex)
             => \A k \in 0..3 :
                   vertices'[idx' - QuadFloats + k * VERTEX_SIZE + 3] = color
         ]_vars
    /\ [][ last'.op = "setColor"
             => /\ \E c \in Colors : color' = PackColor(c[1], c[2], c[3], c[4])
                /\ UNCHANGED << vertices, idx, hist >> ]_vars

\* C15 witness: a white quad and, after setColor(1, 0, 0, 1), a red quad are
\* in the buffer
C15_Witness ==
    /\ last.op = "draw" /\ last.err = "none" /\ idx = 2 * QuadFloats
    /\ color = PackColor(1, 0, 0, 1)
    /\ vertices[3] = PackColor(1, 1, 1, 1)
    /\ vertices[QuadFloats + 3] = PackColor(1, 0, 0, 1)

\* C17: drawVertices() and draw() follow the same flush policy: in every
\* state of a session and for every texture they agree on whether to
\* flush, and leave the same cursor, currentTexture and render-call counter.
C17_SamePolicy ==
    drawing
      => \A tex \in Textures :
            LET d == drawPolicy(Cur, tex)
                v == drawVerticesPolicy(Cur, tex)
            IN  /\ d.idx = v.idx
                /\ d.texture = v.texture
                /\ d.totalRenderCalls = v.totalRenderCalls

\* C18: cursor is a multiple of vertexSize * 4 in every state, after any
\* calls of begin, draw, drawVertices, flush, end and setColor, failed ones
\* included.
C18_WholeQuads == idx % (VERTEX_SIZE * 4) = 0

\* C18 witness: begin() has failed in a session with two quads buffered
C18_Witness ==
    /\ last.op = "begin" /\ last.err = "IllegalState"
    /\ idx = 2 * VERTEX_SIZE * 4
    /\ color = PackColor(1, 0, 0, 1)

\* C19: currentTexture is not null whenever cursor > 0.
C19_TextureSet == idx > 0 => texture # NullTex

\* C19 witness: two quads are buffered under a texture
C19_Witness == drawing /\ idx = 2 * QuadFloats /\ texture = "GlTex2"

\* C20: an idle batch has cursor 0, so flush() outside a session uploads
\* nothing and leaves the render-call counter alone, and a session starts
\* with no quad of an earlier session in the buffer.
C20_IdleEmpty ==
    /\ [](~drawing => idx = 0)
    /\ [][ (last'.op = "flush" /\ ~drawing)
             => UNCHANGED << totalRenderCalls, hist >> ]_vars
    /\ [][ (last'.op = "begin" /\ last'.err = "none")
             => idx' = 0 /\ hist'.slots = << >> ]_vars

\* C20 witness: flush() was called after a session that rendered quads
C20_Witness ==
    /\ last.op = "flush" /\ ~drawing
    /\ totalRenderCalls > 0 /\ texture # NullTex

====
